---- MODULE Spec2Model ----
(***************************************************************************)
(* ValidationReportReader (rcsb.utils.validation): read() parses an XML    *)
(* validation report, __extract flattens three element levels into rows    *)
(* keyed by tag, __buildCif turns the rows into mmCIF categories, renames  *)
(* them through the schema map and decodes program.properties.             *)
(*                                                                         *)
(* Python objects are modelled with a heap: an element's attrib dict and a *)
(* row dict are heap cells, and the tree and the row lists hold references *)
(* (indices), so that aliasing between rows and el.attrib is visible.      *)
(***************************************************************************)
EXTENDS Integers, Sequences, FiniteSets, TLC

\* Largest number of element nodes in a parsed document.
MaxElems == 3

(***************************************************************************)
(* Values: Python str (a sequence of characters), int, None.               *)
(***************************************************************************)
StrV(s) == [k |-> "str", n |-> 0, s |-> s]
IntV(n) == [k |-> "int", n |-> n, s |-> <<>>]
NoneV == [k |-> "none", n |-> 0, s |-> <<>>]

EmptyDict == [x \in {} |-> NoneV]

Range(f) == {f[x] : x \in DOMAIN f}

Digit(n) == <<"0", "1", "2", "3", "4", "5", "6", "7", "8", "9">>[n + 1]

RECURSIVE Decimal(_)
Decimal(n) == IF n < 10 THEN <<Digit(n)>> ELSE Decimal(n \div 10) \o <<Digit(n % 10)>>

\* str(v) for the values a row can hold
PyStr(v) == IF v.k = "str" THEN v.s ELSE IF v.k = "int" THEN Decimal(v.n) ELSE <<"N", "o", "n", "e">>

IsSpace(c) == c \in {" ", "\t", "\n", "\r"}

RECURSIVE LStrip(_)
LStrip(s) == IF s # <<>> /\ IsSpace(Head(s)) THEN LStrip(Tail(s)) ELSE s

RECURSIVE RStrip(_)
RStrip(s) == IF s # <<>> /\ IsSpace(s[Len(s)]) THEN RStrip(SubSeq(s, 1, Len(s) - 1)) ELSE s

\* str.strip()
Strip(s) == RStrip(LStrip(s))

\* str.split(','): always at least one token, the empty string gives ['']
RECURSIVE SplitFrom(_, _, _)
SplitFrom(s, i, cur) ==
    IF i > Len(s) THEN <<cur>>
    ELSE IF s[i] = "," THEN <<cur>> \o SplitFrom(s, i + 1, <<>>)
    ELSE SplitFrom(s, i + 1, Append(cur, s[i]))

Split(s) == SplitFrom(s, 1, <<>>)

\* ",".join(toks)
RECURSIVE Join(_)
Join(toks) ==
    IF toks = <<>> THEN <<>>
    ELSE IF Len(toks) = 1 THEN toks[1]
    ELSE toks[1] \o <<",">> \o Join(Tail(toks))

(***************************************************************************)
(* The reader instance: the schema map, the attribute order table and the  *)
(* decode table come from ValidationReportSchemaUtils; __init__ derives    *)
(* the per-category attribute lists.                                       *)
(***************************************************************************)
S(str) == StrV(str)

\* (category, attribute) pairs of the report schema
AllKeys ==
    {<<"ModelledSubgroup", a>> : a \in {"ordinal", "chain", "altcode", "icode", "rsr"}}
    \cup {<<"clash", a>> : a \in {"ordinal", "chain", "icode", "cid"}}
    \cup {<<"program", a>> : a \in {"name", "properties"}}
    \cup {<<"programs", "name">>}

RegKeys(reg) ==
    CASE reg = "all" -> AllKeys
      [] reg = "noclash" -> {p \in AllKeys : p[1] # "clash"}
      [] reg = "noprograms" -> {p \in AllKeys : p[1] # "programs"}

AtName(ren, cat, at) ==
    CASE ren = "identity" -> at
      [] ren = "canonical" ->
           IF <<cat, at>> = <<"ModelledSubgroup", "rsr">> THEN "RSR"
           ELSE IF <<cat, at>> = <<"ModelledSubgroup", "chain">> THEN "auth_asym_id"
           ELSE IF <<cat, at>> = <<"clash", "chain">> THEN "label_asym_id"
           ELSE IF <<cat, at>> = <<"clash", "cid">> THEN "clash_id"
           ELSE at
      [] ren = "swap" ->
           IF <<cat, at>> = <<"program", "name">> THEN "properties"
           ELSE IF <<cat, at>> = <<"program", "properties">> THEN "name"
           ELSE IF <<cat, at>> = <<"ModelledSubgroup", "chain">> THEN "altcode"
           ELSE IF <<cat, at>> = <<"ModelledSubgroup", "altcode">> THEN "chain"
           ELSE IF <<cat, at>> = <<"clash", "chain">> THEN "cid"
           ELSE IF <<cat, at>> = <<"clash", "cid">> THEN "chain"
           ELSE at

CatNames(ren) ==
    CASE ren = "identity" -> EmptyDict
      [] ren = "canonical" ->
           ("ModelledSubgroup" :> "pdbx_vrpt_instance") @@ ("clash" :> "pdbx_vrpt_clash")
           @@ ("program" :> "pdbx_vrpt_software")
      [] ren = "swap" -> ("program" :> "clash") @@ ("clash" :> "program")

SchemaMapOf(reg, ren) ==
    [attributes |-> [p \in RegKeys(reg) |-> [at |-> AtName(ren, p[1], p[2])]],
     categories |-> CatNames(ren)]

FullOrder ==
    ("ordinal" :> 1) @@ ("chain" :> 2) @@ ("altcode" :> 3) @@ ("icode" :> 4) @@ ("rsr" :> 5)
    @@ ("cid" :> 6) @@ ("name" :> 7) @@ ("properties" :> 8)

AttributeOrderOf(rank) ==
    CASE rank = "full" -> FullOrder
      [] rank = "norsr" -> [a \in DOMAIN FullOrder \ {"rsr"} |-> FullOrder[a]]
      [] rank = "ties" -> [a \in DOMAIN FullOrder |->
                              IF a \in {"chain", "altcode", "rsr", "cid"} THEN 2
                              ELSE IF a \in {"name", "properties"} THEN 7
                              ELSE FullOrder[a]]

\* decode table of provenance tokens (getAttributeMap)
AttributeMap == (<<"a">> :> <<"x", "y">>) @@ (<<"b", "c">> :> <<"z">>)

SchemaChoices ==
    {<<"all", "full", "canonical">>, <<"all", "full", "swap">>,
     <<"noclash", "full", "identity">>, <<"noprograms", "full", "canonical">>,
     <<"all", "norsr", "canonical">>, <<"all", "ties", "identity">>}

\* __init__: attribD[catName] collects the attribute names of the schema map keys
AttribDOf(schemaMap) ==
    [c \in {p[1] : p \in DOMAIN schemaMap.attributes} |->
        {p[2] : p \in {q \in DOMAIN schemaMap.attributes : q[1] = c}}]

ReaderOf(ch) ==
    LET sm == SchemaMapOf(ch[1], ch[3])
    IN [schemaMap |-> sm, atOrdD |-> AttributeOrderOf(ch[2]), atMap |-> AttributeMap,
        attribD |-> AttribDOf(sm)]

(***************************************************************************)
(* Elements the parser can deliver: a tag and the attribute mapping.       *)
(***************************************************************************)
ElemKinds ==
    {[tag |-> "ModelledSubgroup",
      attrib |-> ("chain" :> S(<<"A">>)) @@ ("altcode" :> S(<<" ", "B">>)) @@ ("rsr" :> S(<<"1">>))],
     [tag |-> "clash",
      attrib |-> ("ordinal" :> S(<<"7">>)) @@ ("chain" :> S(<<"Z">>)) @@ ("icode" :> S(<<" ">>))
                 @@ ("cid" :> S(<<"1">>))],
     [tag |-> "clash", attrib |-> EmptyDict],
     [tag |-> "program",
      attrib |-> ("name" :> S(<<"b", "c">>))
                 @@ ("properties" :> S(<<"a", ",", " ", "b", "c", ",", "d", " ">>))],
     [tag |-> "program", attrib |-> ("properties" :> S(<<>>))],
     [tag |-> "program", attrib |-> ("name" :> S(<<"a", ",">>))],
     [tag |-> "programs", attrib |-> ("junk" :> S(<<"1">>))]}

VARIABLES self, xrt, heap, attrib0, rD, curContainer, srtAtL, ret, err, pc

vars == <<self, xrt, heap, attrib0, rD, curContainer, srtAtL, ret, err, pc>>

NoError == [type |-> "none", table |-> "", key |-> ""]
NoneContainer == [objNameList |-> <<>>, objCatalog |-> EmptyDict]
EmptyRows == [keys |-> <<>>, rows |-> EmptyDict]

Init ==
    /\ self \in {ReaderOf(ch) : ch \in SchemaChoices}
    /\ xrt = <<>>
    /\ heap = <<>>
    /\ attrib0 = <<>>
    /\ rD = EmptyRows
    /\ curContainer = NoneContainer
    /\ srtAtL = EmptyDict
    /\ ret = "pending"
    /\ err = NoError
    /\ pc = "parse"

(***************************************************************************)
(* __parse (ET.parse): the tree grows in document order; every element     *)
(* gets its own attrib dict.                                               *)
(***************************************************************************)
Node(kind, ref) == [tag |-> kind.tag, attrib |-> ref, kids |-> <<>>]

ParseTop(kind) ==
    /\ pc = "parse"
    /\ Len(heap) < MaxElems
    /\ heap' = Append(heap, kind.attrib)
    /\ xrt' = Append(xrt, Node(kind, Len(heap) + 1))
    /\ UNCHANGED <<self, attrib0, rD, curContainer, srtAtL, ret, err, pc>>

ParseChild(kind) ==
    /\ pc = "parse"
    /\ Len(heap) < MaxElems
    /\ xrt # <<>>
    /\ heap' = Append(heap, kind.attrib)
    /\ xrt' = [xrt EXCEPT ![Len(xrt)].kids = Append(@, Node(kind, Len(heap) + 1))]
    /\ UNCHANGED <<self, attrib0, rD, curContainer, srtAtL, ret, err, pc>>

ParseGrandChild(kind) ==
    /\ pc = "parse"
    /\ Len(heap) < MaxElems
    /\ xrt # <<>>
    /\ xrt[Len(xrt)].kids # <<>>
    /\ heap' = Append(heap, kind.attrib)
    /\ xrt' = [xrt EXCEPT ![Len(xrt)].kids[Len(xrt[Len(xrt)].kids)].kids =
                              Append(@, Node(kind, Len(heap) + 1))]
    /\ UNCHANGED <<self, attrib0, rD, curContainer, srtAtL, ret, err, pc>>

(***************************************************************************)
(* __extract                                                               *)
(***************************************************************************)
atL == <<"altcode", "chain", "ent", "model", "resname", "resnum", "said", "seq">>

\* rD.setdefault(tag, []).append(ref); st carries the heap and rD
RowAppend(st, tag, ref) ==
    IF tag \in DOMAIN st.rows
    THEN [st EXCEPT !.rows[tag] = Append(@, ref)]
    ELSE [st EXCEPT !.keys = Append(@, tag), !.rows = (tag :> <<ref>>) @@ @]

\* mutation: the child's own value wins on a key conflict
ChildRowChildWins(chAttrib, msgD) ==
    LET carried == {k \in Range(atL) : k \in DOMAIN msgD}
    IN chAttrib @@ [k \in carried |-> msgD[k]]

\* d = {k: ch.attrib[k] ...}; d.update({k: msgD[k] for k in atL if k in msgD})
ChildRow(chAttrib, msgD) ==
    LET carried == {k \in Range(atL) : k \in DOMAIN msgD}
    IN [k \in carried |-> msgD[k]] @@ chAttrib

RECURSIVE ExtractGrandChildren(_, _, _)
ExtractGrandChildren(st, gchs, i) ==
    IF i > Len(gchs) THEN st
    ELSE ExtractGrandChildren(RowAppend(st, gchs[i].tag, gchs[i].attrib), gchs, i + 1)

RECURSIVE ExtractChildren(_, _, _, _)
ExtractChildren(st, chs, i, msgD) ==
    IF i > Len(chs) THEN st
    ELSE LET ch == chs[i]
             d == ChildRow(st.heap[ch.attrib], msgD)
             st1 == [st EXCEPT !.heap = Append(@, d)]
             st2 == RowAppend(st1, ch.tag, Len(st1.heap))
         IN ExtractChildren(ExtractGrandChildren(st2, ch.kids, 1), chs, i + 1, msgD)

\* mutation: rD[el.tag] = [el.attrib] in place of setdefault(...).append
TopRowReset(st, el) ==
    IF el.tag \in DOMAIN st.rows
    THEN [st EXCEPT !.rows[el.tag] = <<el.attrib>>]
    ELSE RowAppend(st, el.tag, el.attrib)

\* the row list of a top-level element's tag gets el.attrib itself
TopRow(st, el) == RowAppend(st, el.tag, el.attrib)

RECURSIVE ExtractElements(_, _, _)
ExtractElements(st, els, i) ==
    IF i > Len(els) THEN st
    ELSE LET el == els[i]
             st1 == TopRow(st, el)
             msgD == IF el.tag = "ModelledSubgroup" THEN st1.heap[el.attrib] ELSE EmptyDict
         IN ExtractElements(ExtractChildren(st1, el.kids, 1, msgD), els, i + 1)

ExtractOf(tree, hp) == ExtractElements([heap |-> hp, keys |-> <<>>, rows |-> EmptyDict], tree, 1)

\* read, lines 55-56: the parse is over, the tree is flattened
Extract ==
    /\ pc = "parse"
    /\ \E st \in {ExtractOf(xrt, heap)} :
          /\ heap' = st.heap
          /\ rD' = [keys |-> st.keys, rows |-> st.rows]
    /\ attrib0' = heap
    /\ pc' = "build"
    /\ UNCHANGED <<self, xrt, curContainer, srtAtL, ret, err>>

(***************************************************************************)
(* __buildCif                                                              *)
(***************************************************************************)
\* mutation: rowD.setdefault('ordinal', ii) keeps an ordinal the source carried
NormalizeRowKeepOrdinal(rowD, ii, hasOrdinal) ==
    LET r1 == IF hasOrdinal /\ "ordinal" \notin DOMAIN rowD
              THEN ("ordinal" :> IntV(ii)) @@ rowD ELSE rowD
        r2 == IF "icode" \in DOMAIN r1
              THEN [r1 EXCEPT !["icode"] = StrV(Strip(PyStr(@)))] ELSE r1
    IN IF "altcode" \in DOMAIN r2
       THEN [r2 EXCEPT !["altcode"] = StrV(Strip(PyStr(@)))] ELSE r2

\* lines 97-102: the row dict is changed in place
NormalizeRow(rowD, ii, hasOrdinal) ==
    LET r1 == IF hasOrdinal THEN ("ordinal" :> IntV(ii)) @@ rowD ELSE rowD
        r2 == IF "icode" \in DOMAIN r1
              THEN [r1 EXCEPT !["icode"] = StrV(Strip(PyStr(@)))] ELSE r1
    IN IF "altcode" \in DOMAIN r2
       THEN [r2 EXCEPT !["altcode"] = StrV(Strip(PyStr(@)))] ELSE r2

\* for ii, rowD in enumerate(rowList, 1)
RECURSIVE NormalizeRows(_, _, _, _)
NormalizeRows(hp, rowList, ii, hasOrdinal) ==
    IF ii > Len(rowList) THEN hp
    ELSE NormalizeRows([hp EXCEPT ![rowList[ii]] = NormalizeRow(@, ii, hasOrdinal)],
                       rowList, ii + 1, hasOrdinal)

\* list(atS): the iteration order of a set of strings depends on the hash seed
HashSeeds == {0, 1}

HashSlots == <<"properties", "junk", "rsr", "cid", "chain", "name", "ordinal", "icode", "altcode">>

Reverse(s) == [i \in 1..Len(s) |-> s[Len(s) + 1 - i]]

ListOfSet(atS, seed) ==
    LET In(a) == a \in atS
    IN SelectSeq(IF seed = 0 THEN HashSlots ELSE Reverse(HashSlots), In)

\* sorted(sD.items(), key=operator.itemgetter(1)): stable, ascending by rank
RECURSIVE SortedByRank(_, _)
SortedByRank(items, rank) ==
    IF items = <<>> THEN <<>>
    ELSE LET least == CHOOSE i \in 1..Len(items) :
                          /\ \A j \in 1..Len(items) : rank[items[i]] <= rank[items[j]]
                          /\ \A j \in 1..(i - 1) : rank[items[j]] # rank[items[i]]
             rest == [j \in 1..(Len(items) - 1) |-> IF j < least THEN items[j] ELSE items[j + 1]]
         IN <<items[least]>> \o SortedByRank(rest, rank)

\* DataCategory(catName, srtAtL, rowList) with dict rows: one value list per row,
\* None where the row has no such key
DataCategory(catName, attributeNameList, rows) ==
    [name |-> catName,
     attributeNameList |-> attributeNameList,
     data |-> [r \in 1..Len(rows) |->
                 [c \in 1..Len(attributeNameList) |->
                     IF attributeNameList[c] \in DOMAIN rows[r]
                     THEN rows[r][attributeNameList[c]] ELSE NoneV]]]

KeyError(table, key) == [type |-> "KeyError", table |-> table, key |-> key]

\* line 90: the skip test; self.__attribD[catName] is a plain dict lookup
SkipTest(attribD, rowList, catName) ==
    IF Len(rowList) < 1 THEN "skip"
    ELSE IF catName \notin DOMAIN attribD THEN "KeyError"
    ELSE IF Cardinality(attribD[catName]) < 1 \/ catName \in {"programs"} THEN "skip"
    ELSE "build"

\* mutation: self.__atOrdD.get(ky, 0), an unranked name sorts first
RankLookupDefault(atOrdD, attributeNameList) ==
    [ok |-> TRUE, key |-> "",
     sD |-> [ky \in Range(attributeNameList) |-> IF ky \in DOMAIN atOrdD THEN atOrdD[ky] ELSE 0]]

\* line 108: sD = {ky: self.__atOrdD[ky] for ky in attributeNameList}
RankLookup(atOrdD, attributeNameList) ==
    LET Unranked(ky) == ky \notin DOMAIN atOrdD
        bad == SelectSeq(attributeNameList, Unranked)
    IN IF bad # <<>> THEN [ok |-> FALSE, key |-> bad[1], sD |-> EmptyDict]
       ELSE [ok |-> TRUE, key |-> "", sD |-> [ky \in Range(attributeNameList) |-> atOrdD[ky]]]

\* mutation: srtAtL = attributeNameList, the sort left out
SortAttributesUnsorted(attributeNameList, sD) == attributeNameList

\* line 109: srtAtL
SortAttributes(attributeNameList, sD) == SortedByRank(attributeNameList, sD)

\* lines 88-113: one pass of the loop over rD; b carries heap, container, srtAtL, err
BuildCategory(rdr, b, elName, rowList, seed) ==
    LET test == SkipTest(rdr.attribD, rowList, elName)
    IN IF test = "skip" THEN b
       ELSE IF test = "KeyError" THEN [b EXCEPT !.err = KeyError("attribD", elName)]
       ELSE LET hasOrdinal == "ordinal" \in rdr.attribD[elName]
                hp == NormalizeRows(b.heap, rowList, 1, hasOrdinal)
                atS == UNION {DOMAIN hp[rowList[r]] : r \in 1..Len(rowList)}
                attributeNameList == ListOfSet(atS, seed)
                look == RankLookup(rdr.atOrdD, attributeNameList)
            IN IF ~look.ok
               THEN [b EXCEPT !.heap = hp, !.err = KeyError("atOrdD", look.key)]
               ELSE LET srt == SortAttributes(attributeNameList, look.sD)
                        aCat == DataCategory(elName, srt, [r \in 1..Len(rowList) |-> hp[rowList[r]]])
                    IN [b EXCEPT !.heap = hp,
                                 !.objNameList = Append(@, elName),
                                 !.objCatalog = (elName :> aCat) @@ @,
                                 !.srtAtL = (elName :> srt) @@ @]

RECURSIVE BuildLoop(_, _, _, _, _)
BuildLoop(rdr, b, rows, i, seed) ==
    IF i > Len(rows.keys) \/ b.err.type # "none" THEN b
    ELSE BuildLoop(rdr, BuildCategory(rdr, b, rows.keys[i], rows.rows[rows.keys[i]], seed),
                   rows, i + 1, seed)

\* mutation: the attribute lookup uses the renamed category name
RenameCategoryByNewName(schemaMap, catName, catObj) ==
    LET atD == schemaMap.attributes
        mapCatName == IF catName \in DOMAIN schemaMap.categories
                      THEN schemaMap.categories[catName] ELSE catName
        mapD == [atName \in Range(catObj.attributeNameList) |->
                    IF <<mapCatName, atName>> \in DOMAIN atD THEN atD[<<mapCatName, atName>>].at
                    ELSE atName]
    IN [catObj EXCEPT !.attributeNameList = [c \in DOMAIN @ |-> mapD[@[c]]],
                      !.name = mapCatName]

\* lines 122-127: the lookups use the name the category was appended under
RenameCategory(schemaMap, catName, catObj) ==
    LET atD == schemaMap.attributes
        mapCatName == IF catName \in DOMAIN schemaMap.categories
                      THEN schemaMap.categories[catName] ELSE catName
        mapD == [atName \in Range(catObj.attributeNameList) |->
                    IF <<catName, atName>> \in DOMAIN atD THEN atD[<<catName, atName>>].at
                    ELSE atName]
    IN [catObj EXCEPT !.attributeNameList = [c \in DOMAIN @ |-> mapD[@[c]]],
                      !.name = mapCatName]

\* lines 117-127: setName leaves the container's catalog keys as they are
AdjustSchemaNames(schemaMap, objCatalog) ==
    [catName \in DOMAIN objCatalog |-> RenameCategory(schemaMap, catName, objCatalog[catName])]

\* mutation: the tokens are not stripped
DecodePropertiesNoStrip(atMap, pV) ==
    LET pVL == Split(pV)
        nL == [t \in DOMAIN pVL |-> IF pVL[t] \in DOMAIN atMap THEN atMap[pVL[t]] ELSE pVL[t]]
    IN Join(nL)

\* lines 135-136
DecodeProperties(atMap, pV) ==
    LET pVL == [t \in DOMAIN Split(pV) |-> Strip(Split(pV)[t])]
        nL == [t \in DOMAIN pVL |-> IF pVL[t] \in DOMAIN atMap THEN atMap[pVL[t]] ELSE pVL[t]]
    IN Join(nL)

IndexOf(seq, x) == CHOOSE i \in 1..Len(seq) : seq[i] = x /\ \A j \in 1..(i - 1) : seq[j] # x

\* lines 133-137: rows are decoded in order; a value that is no string has no split
RECURSIVE MapProperties(_, _, _, _)
MapProperties(atMap, catObj, col, iRow) ==
    IF iRow > Len(catObj.data) THEN [catObj |-> catObj, err |-> NoError]
    ELSE LET pV == catObj.data[iRow][col]
         IN IF pV.k # "str"
            THEN [catObj |-> catObj,
                  err |-> [type |-> "AttributeError", table |-> "properties", key |-> "split"]]
            ELSE MapProperties(atMap,
                               [catObj EXCEPT !.data[iRow][col] = StrV(DecodeProperties(atMap, pV.s))],
                               col, iRow + 1)

\* line 132: catObj and catObj.hasAttribute('properties')
HasProperties(objCatalog) ==
    /\ "program" \in DOMAIN objCatalog
    /\ Len(objCatalog["program"].data) > 0
    /\ "properties" \in Range(objCatalog["program"].attributeNameList)

\* lines 131-139: the return statement sits inside the if
Provenance(atMap, objCatalog) ==
    IF HasProperties(objCatalog)
    THEN LET catObj == objCatalog["program"]
             m == MapProperties(atMap, catObj, IndexOf(catObj.attributeNameList, "properties"), 1)
         IN [objCatalog |-> [objCatalog EXCEPT !["program"] = m.catObj],
             err |-> m.err,
             ret |-> IF m.err.type = "none" THEN "container" ELSE "raised"]
    ELSE [objCatalog |-> objCatalog, err |-> NoError, ret |-> "None"]

BuildCifOf(rdr, rows, hp, seed) ==
    LET b0 == [heap |-> hp, objNameList |-> <<>>, objCatalog |-> EmptyDict,
               srtAtL |-> EmptyDict, err |-> NoError]
        b == BuildLoop(rdr, b0, rows, 1, seed)
    IN IF b.err.type # "none"
       THEN [heap |-> b.heap, objNameList |-> b.objNameList, objCatalog |-> b.objCatalog,
             srtAtL |-> b.srtAtL, err |-> b.err, ret |-> "raised"]
       ELSE LET p == Provenance(rdr.atMap, AdjustSchemaNames(rdr.schemaMap, b.objCatalog))
            IN [heap |-> b.heap, objNameList |-> b.objNameList, objCatalog |-> p.objCatalog,
                srtAtL |-> b.srtAtL, err |-> p.err, ret |-> p.ret]

\* read, lines 57-58: myContainerList = self.__buildCif(rD); return myContainerList
BuildCif ==
    /\ pc = "build"
    /\ \E seed \in HashSeeds :
          \E b \in {BuildCifOf(self, rD, heap, seed)} :
             /\ heap' = b.heap
             /\ curContainer' = [objNameList |-> b.objNameList, objCatalog |-> b.objCatalog]
             /\ srtAtL' = b.srtAtL
             /\ err' = b.err
             /\ ret' = b.ret
    /\ pc' = "done"
    /\ UNCHANGED <<self, xrt, attrib0, rD>>

Next ==
    \/ \E kind \in ElemKinds : ParseTop(kind)
    \/ \E kind \in ElemKinds : ParseChild(kind)
    \/ \E kind \in ElemKinds : ParseGrandChild(kind)
    \/ Extract
    \/ BuildCif

Spec == Init /\ [][Next]_vars

(***************************************************************************)
(* The document as the parser delivered it, for stating the properties.    *)
(***************************************************************************)
Flattened == pc = "build"
Done == pc = "done"

Cardinal == {"altcode", "chain", "ent", "model", "resname", "resnum", "said", "seq"}

\* number of children of the top-level elements before the i-th
RECURSIVE KidsBefore(_)
KidsBefore(i) == IF i <= 1 THEN 0 ELSE KidsBefore(i - 1) + Len(xrt[i - 1].kids)

\* the row made for the j-th child of the i-th top-level element
ChildRowRef(i, j) == Len(attrib0) + KidsBefore(i) + j

RECURSIVE GrandFrom(_, _, _)
GrandFrom(i, j, g) ==
    IF g > Len(xrt[i].kids[j].kids) THEN <<>>
    ELSE <<[tag |-> xrt[i].kids[j].kids[g].tag, ref |-> xrt[i].kids[j].kids[g].attrib]>>
         \o GrandFrom(i, j, g + 1)

RECURSIVE KidsFrom(_, _)
KidsFrom(i, j) ==
    IF j > Len(xrt[i].kids) THEN <<>>
    ELSE <<[tag |-> xrt[i].kids[j].tag, ref |-> ChildRowRef(i, j)]>>
         \o GrandFrom(i, j, 1) \o KidsFrom(i, j + 1)

RECURSIVE TopsFrom(_)
TopsFrom(i) ==
    IF i > Len(xrt) THEN <<>>
    ELSE <<[tag |-> xrt[i].tag, ref |-> xrt[i].attrib]>> \o KidsFrom(i, 1) \o TopsFrom(i + 1)

\* every element in document order, with the row that stands for it
DocumentOrder == TopsFrom(1)

RowsInDocumentOrder(tag) ==
    LET Is(e) == e.tag = tag
        es == SelectSeq(DocumentOrder, Is)
    IN [n \in 1..Len(es) |-> es[n].ref]

TableOf(tag) == IF tag \in DOMAIN rD.rows THEN rD.rows[tag] ELSE <<>>

\* what a child's row has to be: own attributes, the parent's cardinal ones on top
ExpectedChildRow(i, j) ==
    LET own == attrib0[xrt[i].kids[j].attrib]
        par == attrib0[xrt[i].attrib]
        carried == IF xrt[i].tag = "ModelledSubgroup" THEN Cardinal \cap DOMAIN par ELSE {}
    IN [k \in (DOMAIN own) \cup carried |-> IF k \in carried THEN par[k] ELSE own[k]]

TopRefs(tag) ==
    LET Is(el) == el.tag = tag
        els == SelectSeq(xrt, Is)
    IN [n \in 1..Len(els) |-> els[n].attrib]

NestedCount(tag) == Len(RowsInDocumentOrder(tag)) - Len(TopRefs(tag))

\* C6 as stated: the ModelledSubgroup table has exactly one row per top-level
\* ModelledSubgroup element, the k-th row being the k-th element's attributes.
C6_ExactlyTopLevelRows ==
    Flattened =>
        /\ Len(TableOf("ModelledSubgroup")) = Len(TopRefs("ModelledSubgroup"))
        /\ \A n \in 1..Len(TableOf("ModelledSubgroup")) :
              n <= Len(TopRefs("ModelledSubgroup"))
              /\ heap[TableOf("ModelledSubgroup")[n]] = attrib0[TopRefs("ModelledSubgroup")[n]]

\* C6 amended: the rows of the N top-level ModelledSubgroup elements are in the table
\* in document order; the table has one more row for each nested element of that tag.
C6_TopLevelRowsKept ==
    Flattened =>
        LET IsTop(ref) == ref \in Range(TopRefs("ModelledSubgroup"))
            kept == SelectSeq(TableOf("ModelledSubgroup"), IsTop)
        IN /\ kept = TopRefs("ModelledSubgroup")
           /\ \A n \in 1..Len(kept) : heap[kept[n]] = attrib0[kept[n]]
           /\ Len(TableOf("ModelledSubgroup")) =
                 Len(TopRefs("ModelledSubgroup")) + NestedCount("ModelledSubgroup")

\* two top-level ModelledSubgroup elements and a nested one between them
C6_Witness ==
    /\ Flattened
    /\ Len(TopRefs("ModelledSubgroup")) = 2
    /\ NestedCount("ModelledSubgroup") = 1
    /\ Len(xrt[1].kids) = 1

(***************************************************************************)
(* Properties of the build.                                                *)
(***************************************************************************)
Categories == DOMAIN curContainer.objCatalog

\* the value DataCategory took for column c of row r of a category
RowCell(cat, r, c) ==
    LET rowD == heap[rD.rows[cat][r]]
        atName == srtAtL[cat][c]
    IN IF atName \in DOMAIN rowD THEN rowD[atName] ELSE NoneV

\* C1: a build that raises nothing returns the container, with or without a
\* program category and a properties column.
C1_ReturnsContainer ==
    (Done /\ err.type = "none") => ret = "container"

Skippable(tag) == tag \notin DOMAIN self.attribD \/ tag = "programs"

\* C2: a tag without a registered attribute list, or the tag programs, gets no
\* category and is not the cause of a failure.
C2_SkippedWithoutFailure ==
    Done =>
        \A tag \in Range(rD.keys) :
            Skippable(tag) =>
                /\ tag \notin Categories
                /\ ~(err.type = "KeyError" /\ err.table = "attribD" /\ err.key = tag)

\* the extracted rows, as flattening left them
ExtractedHeap == ExtractOf(xrt, attrib0).heap

UnrankedIn(tags) ==
    \E tag \in Range(rD.keys) \cap tags :
        \E r \in 1..Len(rD.rows[tag]) :
            \E atName \in DOMAIN ExtractedHeap[rD.rows[tag][r]] : atName \notin DOMAIN self.atOrdD

AllTags == {"ModelledSubgroup", "clash", "program", "programs"}

\* C3 as stated: an unranked attribute name in any extracted row makes the build
\* fail with a lookup error, and no container is returned.
C3_AnyUnrankedFails ==
    (Done /\ UnrankedIn(AllTags)) => (err.type = "KeyError" /\ ret = "raised")

\* C3 amended: an unranked attribute name in a row of any tag other than the
\* excluded programs makes the build fail with a lookup error, and no container
\* is returned.
C3_UnrankedFails ==
    (Done /\ UnrankedIn(AllTags \ {"programs"})) => (err.type = "KeyError" /\ ret = "raised")

C3_Witness ==
    /\ Done
    /\ UnrankedIn(AllTags \ {"programs"})
    /\ err = KeyError("atOrdD", "rsr")
    /\ "program" \in Range(rD.keys)

\* C4: in every category whose attribute list has ordinal, row i (in the order the
\* rows were appended while flattening) has ordinal i, in the row and in the category.
C4_Ordinals ==
    Done =>
        \A cat \in Categories :
            "ordinal" \in self.attribD[cat] =>
                /\ Len(curContainer.objCatalog[cat].data) = Len(rD.rows[cat])
                /\ "ordinal" \in Range(srtAtL[cat])
                /\ \A i \in 1..Len(rD.rows[cat]) :
                      /\ heap[rD.rows[cat][i]]["ordinal"] = IntV(i)
                      /\ curContainer.objCatalog[cat].data[i][IndexOf(srtAtL[cat], "ordinal")] = IntV(i)

\* a table of two rows from different levels, one of which came with an ordinal
C4_Witness ==
    /\ Done
    /\ "clash" \in Categories
    /\ Len(rD.rows["clash"]) >= 2
    /\ \E i, j \in 1..Len(rD.rows["clash"]) :
          /\ rD.rows["clash"][i] <= Len(attrib0)
          /\ rD.rows["clash"][j] > Len(attrib0)
          /\ "ordinal" \in DOMAIN attrib0[rD.rows["clash"][i]]
          /\ i > 1

\* C7: the columns of a category are the keys of its rows, each once, and a column of
\* lower rank stands before a column of higher rank.
C7_Columns ==
    Done =>
        \A cat \in Categories :
            LET cols == srtAtL[cat]
                keys == UNION {DOMAIN heap[rD.rows[cat][r]] : r \in 1..Len(rD.rows[cat])}
            IN /\ Range(cols) = keys
               /\ Len(cols) = Cardinality(keys)
               /\ Len(curContainer.objCatalog[cat].attributeNameList) = Len(cols)
               /\ \A p, q \in 1..Len(cols) :
                     self.atOrdD[cols[p]] < self.atOrdD[cols[q]] => p < q

\* rows with different key sets, and the hash order of the columns is not the rank order
C7_Witness ==
    /\ Done
    /\ "clash" \in Categories
    /\ Len(srtAtL["clash"]) >= 4
    /\ \E r \in 1..Len(rD.rows["clash"]) : DOMAIN heap[rD.rows["clash"][r]] # Range(srtAtL["clash"])
    /\ \E seed \in HashSeeds : ListOfSet(Range(srtAtL["clash"]), seed) # srtAtL["clash"]

Renamed == Done /\ err.table \notin {"attribD", "atOrdD"}

CanonicalCategory(cat) ==
    IF cat \in DOMAIN self.schemaMap.categories THEN self.schemaMap.categories[cat] ELSE cat

CanonicalAttribute(cat, atName) ==
    IF <<cat, atName>> \in DOMAIN self.schemaMap.attributes
    THEN self.schemaMap.attributes[<<cat, atName>>].at ELSE atName

\* C8: a category's final name is the schema map's entry for its tag, a column's final
\* name the entry for (tag, original column name), each the name itself when there is
\* no entry; nothing is translated twice.
C8_RenamedOnce ==
    Renamed =>
        \A cat \in Categories :
            /\ curContainer.objCatalog[cat].name = CanonicalCategory(cat)
            /\ curContainer.objCatalog[cat].attributeNameList =
                  [c \in 1..Len(srtAtL[cat]) |-> CanonicalAttribute(cat, srtAtL[cat][c])]

\* canonical names that are original names of another category and of another column
C8_Witness ==
    /\ Renamed
    /\ {"program", "clash"} \subseteq Categories
    /\ curContainer.objCatalog["program"].name = "clash"
    /\ curContainer.objCatalog["clash"].name = "program"
    /\ \E c \in 1..Len(srtAtL["program"]) :
          /\ srtAtL["program"][c] = "name"
          /\ curContainer.objCatalog["program"].attributeNameList[c] = "properties"
    /\ \E c \in 1..Len(srtAtL["clash"]) :
          /\ srtAtL["clash"][c] = "chain"
          /\ curContainer.objCatalog["clash"].attributeNameList[c] = "cid"

\* the tokens of a comma separated string, by the places of its commas
Commas(str) == {i \in 1..Len(str) : str[i] = ","}

TokenStart(str, t) ==
    IF t = 1 THEN 1
    ELSE 1 + CHOOSE i \in Commas(str) : Cardinality({j \in Commas(str) : j <= i}) = t - 1

TokenEnd(str, t) ==
    IF t = Cardinality(Commas(str)) + 1 THEN Len(str)
    ELSE (CHOOSE i \in Commas(str) : Cardinality({j \in Commas(str) : j <= i}) = t) - 1

Token(str, t) == SubSeq(str, TokenStart(str, t), TokenEnd(str, t))

Trimmed(tok) ==
    LET inked == {i \in 1..Len(tok) : tok[i] \notin {" ", "\t", "\n", "\r"}}
    IN IF inked = {} THEN <<>>
       ELSE SubSeq(tok, CHOOSE i \in inked : \A j \in inked : i <= j,
                        CHOOSE i \in inked : \A j \in inked : j <= i)

Decoded(tok) == IF tok \in DOMAIN self.atMap THEN self.atMap[tok] ELSE tok

C10_TreeUnchanged ==
    Done => \A r \in 1..Len(attrib0) : heap[r] = attrib0[r]

====
